---- MODULE Spec2Model ----
(***************************************************************************)
(* Model of timy-rs (src/src/main.rs): a Telegram work/rest time tracker.  *)
(* One dialogue (one chat) is modelled.  Its stored State is the variable  *)
(* `state`; every inbound message is routed by schema() to exactly one     *)
(* endpoint.  Each endpoint is one action, taken once per await: it is     *)
(* entered, its send_message returns, its dialogue.update writes.  The     *)
(* endpoints of the chat are entered one at a time (`pc`): main hands the  *)
(* updates to teloxide's Dispatcher and has no task or lock of its own.    *)
(*                                                                         *)
(* Time.  chrono's DateTime/TimeDelta carry sub-second precision.  The     *)
(* model counts time in ticks, SubsecRes ticks to the second, so that      *)
(* num_seconds() really truncates.  The wall clock is the variable `now`;  *)
(* Utc::now returns it.  It is not monotonic: at any moment, also while    *)
(* an endpoint awaits, it may advance (Tick) or be set back (SetBack).     *)
(*                                                                         *)
(* Next, NextDialogue and NextFormat are the program with its clock; they  *)
(* set no limit to the set-backs.  The specifications follow a behaviour   *)
(* up to its MaxSetbacks-th set-back (Explored), which keeps cur_hours     *)
(* within finitely many values.                                            *)
(***************************************************************************)
EXTENDS Integers, Sequences, FiniteSets, TLC

(* ------------------------------ bounds --------------------------------- *)
\* ticks per second of the modelled clock (chrono: 10^9)
SubsecRes == 2
\* set-backs of the wall clock that are explored
MaxSetbacks == 2
\* values the wall clock takes: whole seconds plus a sub-second part
ClockSubs == {0, 1}
ClockReadings == {0} \cup {3661 * SubsecRes + f : f \in ClockSubs}
\* the clock of the dialogue specification: within one second
DialogueClock == {f : f \in ClockSubs}

(* ------------------------- program constants --------------------------- *)
\* `% 60`, `/ 60` of the time formatting
Sixty == 60
\* width of `{:0>2}`
PadWidth == 2
\* TimeDelta::hours: seconds in an hour
SecsPerHour == 3600

(* ------------------------------ texts ---------------------------------- *)
DigitChars == <<"0", "1", "2", "3", "4", "5", "6", "7", "8", "9">>
IsDigit(c) == \E i \in 1..10 : DigitChars[i] = c
DigitVal(c) == (CHOOSE i \in 1..10 : DigitChars[i] = c) - 1

HelpText == <<"/", "h", "e", "l", "p">>
WorkText == <<"/", "w", "o", "r", "k">>
RestText == <<"/", "r", "e", "s", "t">>
StatusText == <<"/", "s", "t", "a", "t", "u", "s">>
ResetText == <<"/", "r", "e", "s", "e", "t">>
\* i64::MAX and i64::MAX + 1
I64MaxText == <<"9","2","2","3","3","7","2","0","3","6","8","5","4","7","7","5","8","0","7">>
I64OverText == <<"9","2","2","3","3","7","2","0","3","6","8","5","4","7","7","5","8","0","8">>

CommandTexts == {HelpText, WorkText, RestText, StatusText, ResetText}
NumberTexts == {<<"0">>, <<"2">>, <<"0", "2">>, <<"+", "2">>, <<"-", "1">>, I64MaxText}
OtherTexts == {<<"/", "f", "o", "o">>, <<"a">>, <<"1", ".", "5">>, <<"-">>, <<>>, I64OverText}
Texts == CommandTexts \cup NumberTexts \cup OtherTexts

\* an inbound message: msg.text() is Some(text) or None (photo, sticker, ...)
NoTextMsg == [hasText |-> FALSE, text |-> <<>>]
TextMsg(t) == [hasText |-> TRUE, text |-> t]
Messages == {TextMsg(t) : t \in Texts} \cup {NoTextMsg}
\* the messages of the time-accounting specification: the commands and a target
TimingMessages == {TextMsg(t) : t \in CommandTexts \cup {<<"2">>}}

(* -------------------------- Rust arithmetic ---------------------------- *)
\* i64 `/` and `%`: truncation toward zero (divisor > 0 here)
RustDiv(a, b) == IF a >= 0 THEN a \div b ELSE -((-a) \div b)
RustRem(a, b) == a - b * RustDiv(a, b)

\* TimeDelta::num_seconds: whole seconds, rounded toward zero
num_seconds(d) == RustDiv(d, SubsecRes)

(* ---------------------- str::parse::<i64> ------------------------------ *)
RECURSIVE StripZeros(_)
StripZeros(d) == IF Len(d) > 1 /\ d[1] = "0" THEN StripZeros(Tail(d)) ELSE d

\* a <= b for digit strings without leading zeros
RECURSIVE LeqDigits(_, _)
LeqDigits(a, b) ==
    IF Len(a) # Len(b) THEN Len(a) < Len(b)
    ELSE IF Len(a) = 0 THEN TRUE
    ELSE IF a[1] # b[1] THEN DigitVal(a[1]) < DigitVal(b[1])
    ELSE LeqDigits(Tail(a), Tail(b))

RECURSIVE DigitsToNat(_)
DigitsToNat(d) ==
    IF Len(d) = 0 THEN 0
    ELSE 10 * DigitsToNat(SubSeq(d, 1, Len(d) - 1)) + DigitVal(d[Len(d)])

\* magnitude of i64::MIN
I64MinMagText == I64OverText

ParseErr == [ok |-> FALSE]
\* optional sign, then one or more decimal digits, value within i64
ParseI64(text) ==
    LET signed == Len(text) > 0 /\ text[1] \in {"+", "-"}
        neg == Len(text) > 0 /\ text[1] = "-"
        body == IF signed THEN Tail(text) ELSE text
    IN  IF Len(body) = 0 \/ (\E i \in 1..Len(body) : ~IsDigit(body[i]))
        THEN ParseErr
        ELSE LET mag == StripZeros(body)
             IN  IF LeqDigits(mag, IF neg THEN I64MinMagText ELSE I64MaxText)
                 THEN [ok |-> TRUE, neg |-> neg, mag |-> mag]
                 ELSE ParseErr

(* -------------------------- TimeDelta::hours --------------------------- *)
\* largest |hours| TimeDelta::hours accepts: (i64::MAX / 1000) / 3600
MaxHoursText == <<"2","5","6","2","0","4","7","7","8","8","0","1","5">>

\* TimeDelta::hours(n): the duration in ticks, or a panic when out of range
TimeDeltaHours(p) ==
    IF LeqDigits(p.mag, MaxHoursText)
    THEN [panic |-> FALSE,
          value |-> (IF p.neg THEN -1 ELSE 1) * DigitsToNat(p.mag) * SecsPerHour * SubsecRes]
    ELSE [panic |-> TRUE]

(* ------------------------------ State ---------------------------------- *)
Start == [tag |-> "Start"]
ReceiveTargetHours == [tag |-> "ReceiveTargetHours"]
Rest(target, cur) == [tag |-> "Rest", target_hours |-> target, cur_hours |-> cur]
Work(target, cur, start) ==
    [tag |-> "Work", target_hours |-> target, cur_hours |-> cur, work_start |-> start]

(* ----------------------------- Command --------------------------------- *)
NoCommand == "NoCommand"
\* BotCommands::parse with rename_rule = "lowercase" (texts carry no arguments)
ParseCommand(msg) ==
    IF ~msg.hasText THEN NoCommand
    ELSE CASE msg.text = HelpText -> "Help"
           [] msg.text = WorkText -> "Work"
           [] msg.text = RestText -> "Rest"
           [] msg.text = StatusText -> "Status"
           [] msg.text = ResetText -> "Reset"
           [] OTHER -> NoCommand

(* ------------------------------ routing -------------------------------- *)
\* variant: a command no branch of command_handler takes goes to invalid_state
schemaNoFallThrough(st, msg) ==
    LET cmd == ParseCommand(msg)
    IN  IF st.tag = "Start" /\ cmd = "Help" THEN "help"
        ELSE IF st.tag = "Rest" /\ cmd = "Work" THEN "work"
        ELSE IF st.tag = "Rest" /\ cmd = "Status" THEN "rest_status"
        ELSE IF st.tag = "Work" /\ cmd = "Rest" THEN "rest"
        ELSE IF st.tag = "Work" /\ cmd = "Status" THEN "work_status"
        ELSE IF cmd # NoCommand THEN "invalid_state"
        ELSE IF st.tag = "ReceiveTargetHours" THEN "receive_target_hours"
        ELSE "invalid_state"

\* variant: the Start branch lacks its case![Command::Help]
schemaStartAnyCommand(st, msg) ==
    LET cmd == ParseCommand(msg)
    IN  IF st.tag = "Start" /\ cmd # NoCommand THEN "help"
        ELSE IF st.tag = "Rest" /\ cmd = "Work" THEN "work"
        ELSE IF st.tag = "Rest" /\ cmd = "Status" THEN "rest_status"
        ELSE IF st.tag = "Work" /\ cmd = "Rest" THEN "rest"
        ELSE IF st.tag = "Work" /\ cmd = "Status" THEN "work_status"
        ELSE IF st.tag = "ReceiveTargetHours" THEN "receive_target_hours"
        ELSE "invalid_state"

\* The endpoint schema() selects.  A command that matches no branch of
\* command_handler falls through to the remaining branches of message_handler.
schema(st, msg) ==
    LET cmd == ParseCommand(msg)
    IN  IF st.tag = "Start" /\ cmd = "Help" THEN "help"
        ELSE IF st.tag = "Rest" /\ cmd = "Work" THEN "work"
        ELSE IF st.tag = "Rest" /\ cmd = "Status" THEN "rest_status"
        ELSE IF st.tag = "Work" /\ cmd = "Rest" THEN "rest"
        ELSE IF st.tag = "Work" /\ cmd = "Status" THEN "work_status"
        ELSE IF st.tag = "ReceiveTargetHours" THEN "receive_target_hours"
        ELSE "invalid_state"

(* ----------------------------- formatting ------------------------------ *)
RECURSIVE NatToDigits(_)
NatToDigits(n) ==
    IF n < 10 THEN <<DigitChars[n + 1]>>
    ELSE NatToDigits(n \div 10) \o <<DigitChars[(n % 10) + 1]>>

\* Display of an i64
Display(n) == IF n < 0 THEN <<"-">> \o NatToDigits(-n) ELSE NatToDigits(n)

\* `{:0>2}`: right-aligned in width 2, filled with '0'
RECURSIVE Pad(_)
Pad(s) == IF Len(s) < PadWidth THEN Pad(<<"0">> \o s) ELSE s

\* variant: the hours wrapped at a day
HmsArgsWrapped(d) ==
    <<RustRem(RustDiv(RustDiv(num_seconds(d), Sixty), Sixty), 24),
      RustRem(RustDiv(num_seconds(d), Sixty), Sixty),
      RustRem(num_seconds(d), Sixty)>>

\* the three format arguments computed from a duration
HmsArgs(d) ==
    <<RustDiv(RustDiv(num_seconds(d), Sixty), Sixty),
      RustRem(RustDiv(num_seconds(d), Sixty), Sixty),
      RustRem(num_seconds(d), Sixty)>>

\* "{:0>2}:{:0>2}:{:0>2}"
HmsText(a) == Pad(Display(a[1])) \o <<":">> \o Pad(Display(a[2])) \o <<":">> \o Pad(Display(a[3]))

(* ------------------------------ replies -------------------------------- *)
NoReply == [kind |-> "none"]
DescriptionsReply ==
    [kind |-> "text", text |-> "These commands are supported:",
     commands |-> <<"/help", "/work", "/rest", "/status", "/reset">>, keyboard |-> <<>>]
InvalidReply ==
    [kind |-> "text", text |-> "Unable to handle the message. Type /help to see the usage.",
     keyboard |-> <<>>]
RepromptReply == [kind |-> "text", text |-> "Send correct hours count.", keyboard |-> <<>>]
SetupDoneReply == [kind |-> "text", text |-> "Setup done.", keyboard |-> <<WorkText, StatusText>>]
StartedReply(work_start) ==
    [kind |-> "started", text |-> "Started work at ", at |-> work_start,
     keyboard |-> <<RestText, StatusText>>]
DoneReply(prefix, cur, target, keyboard) ==
    [kind |-> "done", text |-> prefix, args |-> HmsArgs(cur) \o HmsArgs(target),
     done |-> HmsText(HmsArgs(cur)), of |-> HmsText(HmsArgs(target)),
     keyboard |-> keyboard]

(* ------------------------------- state --------------------------------- *)
VARIABLES
    state,      \* the dialogue's State in InMemStorage
    reply,      \* the message last delivered (NoReply: the last send failed, or none yet)
    panicked,   \* a handler panicked; the chat's worker task is gone
    last,       \* history: the last event whose endpoint returned
    lastRead,   \* history: the clock reading of the last endpoint that took one (-1: none)
    mono,       \* history: every such reading was >= the one before it
    opened,     \* history: the clock reading of the Work event of the latest interval (-1: none)
    closed,     \* history: a work interval has been completed
    committed,  \* history: the sum of (Rest reading - Work reading) over completed intervals
    probed,     \* history: a Status was answered during the latest work interval
    pc,         \* the endpoint in flight and the step it stands at (Idle: none)
    \* the wall clock
    now,        \* what Utc::now returns
    setbacks    \* history: the number of times the clock was set back

svars == <<state, reply, panicked, last, lastRead, mono, opened, closed, committed, probed, pc>>
cvars == <<now, setbacks>>
vars == <<svars, cvars>>

NoEvent == [handler |-> "none"]
Event(h, msg, ok) == [handler |-> h, msg |-> msg, ok |-> ok]

\* no endpoint in flight
Idle == [step |-> "idle"]
\* an endpoint that does not call Utc::now
NoReading == -1
\* endpoint h was entered with msg and the State st, took the reading t and
\* awaits its send_message
Entered(h, msg, st, t) == [step |-> "send", handler |-> h, msg |-> msg, read |-> st, t |-> t]

Init ==
    /\ state = Start
    /\ reply = NoReply
    /\ panicked = FALSE
    /\ last = NoEvent
    /\ lastRead = -1
    /\ mono = TRUE
    /\ opened = -1
    /\ closed = FALSE
    /\ committed = 0
    /\ probed = FALSE
    /\ pc = Idle
    /\ now = 0
    /\ setbacks = 0

\* an endpoint that does not call Utc::now returns
NoClock == UNCHANGED <<lastRead, mono>>
\* an endpoint whose first statement was Utc::now, returning t, returns
ReadClock(t) == lastRead' = t /\ mono' = (mono /\ t >= lastRead)

(* ------------------------- handler computations ------------------------ *)
\* variant: the two Durations of the tuple taken in the wrong order
WorkUpdateSwapped(st, work_start) == Work(st.cur_hours, st.target_hours, work_start)

\* variant: a new work interval starts the count again
WorkUpdateZeroed(st, work_start) == Work(st.target_hours, 0, work_start)

\* work: the State handed to dialogue.update
WorkUpdate(st, work_start) == Work(st.target_hours, st.cur_hours, work_start)

\* variant: the operands of signed_duration_since exchanged
RestNewCurHoursReversed(st, cur_time) ==
    LET time_delta == st.work_start - cur_time
    IN  st.cur_hours + time_delta

\* variant: the elapsed time replaces the total instead of being added to it
RestNewCurHoursDeltaOnly(st, cur_time) == cur_time - st.work_start

\* rest: time_delta = cur_time - work_start; new_cur_hours = cur_hours + time_delta
RestNewCurHours(st, cur_time) ==
    LET time_delta == cur_time - st.work_start
    IN  st.cur_hours + time_delta

\* variant: the status shows the elapsed time of the interval only
StatusNewCurHoursDeltaOnly(st, cur_time) == cur_time - st.work_start

\* work_status: the same two lines, written a second time in the source
StatusNewCurHours(st, cur_time) ==
    LET time_delta == cur_time - st.work_start
    IN  st.cur_hours + time_delta

\* variant: the projected total is stored, work_start kept
WorkStatusUpdateStored(st, cur_time) ==
    Work(st.target_hours, st.cur_hours + (cur_time - st.work_start), st.work_start)

\* work_status takes no dialogue: the stored State stays as it is
WorkStatusUpdate(st, cur_time) == st

(* ------------------------------ handlers ------------------------------- *)
\* An endpoint runs in steps, returning to the executor at each await:
\*   "send":   it was entered, has run up to bot.send_message(...).await and
\*             waits for the send to return;
\*   "update": the message is delivered and dialogue.update(...).await is next.
\* pc holds what the endpoint was given (msg, the State's fields) and the clock
\* reading it took in its first statement.  The chat's worker enters the next
\* endpoint when the one before it has returned (pc = Idle).
\* ok: whether bot.send_message(...).await succeeded; `?` returns on failure.

\* dialogue::enter: schema() selects endpoint h and hands it the State
Enter(h, msg, t) ==
    /\ pc = Idle
    /\ schema(state, msg) = h
    /\ pc' = Entered(h, msg, state, t)
    /\ UNCHANGED <<state, reply, panicked, last, lastRead, mono,
                   opened, closed, committed, probed>>

\* endpoint h, given msg, stands at step s
Awaiting(h, msg, s) == pc.step = s /\ pc.handler = h /\ pc.msg = msg

\* the send is through and dialogue.update is next
Delivered(r) ==
    /\ reply' = r
    /\ pc' = [pc EXCEPT !.step = "update"]
    /\ UNCHANGED <<last, lastRead, mono>>

\* the endpoint returns (Ok, or Err when the send failed)
Return(ok) ==
    /\ pc' = Idle
    /\ last' = Event(pc.handler, pc.msg, ok)
    /\ IF pc.t = NoReading THEN NoClock ELSE ReadClock(pc.t)

help(msg, ok) ==
    /\ ~panicked
    /\ UNCHANGED cvars
    /\ \/ Enter("help", msg, NoReading)
       \/ /\ Awaiting("help", msg, "send")
          /\ IF ok THEN Delivered(DescriptionsReply)
                   ELSE reply' = NoReply /\ Return(FALSE)
          /\ UNCHANGED <<state, panicked, opened, closed, committed, probed>>
       \/ /\ Awaiting("help", msg, "update")
          /\ state' = ReceiveTargetHours
          /\ Return(TRUE)
          /\ UNCHANGED <<reply, panicked, opened, closed, committed, probed>>

\* variant: dialogue.update is awaited before the message is sent
workUpdateFirst(msg, t, ok) ==
    /\ ~panicked
    /\ UNCHANGED cvars
    /\ \/ Enter("work", msg, t)
       \/ /\ Awaiting("work", msg, "send")
          /\ LET work_start == pc.t
             IN  IF ok
                 THEN /\ Delivered(StartedReply(work_start))
                      /\ UNCHANGED <<state, opened, probed>>
                 ELSE /\ reply' = NoReply
                      /\ Return(FALSE)
                      /\ state' = WorkUpdate(pc.read, work_start)
                      /\ opened' = work_start
                      /\ probed' = FALSE
          /\ UNCHANGED <<panicked, closed, committed>>
       \/ /\ Awaiting("work", msg, "update")
          /\ LET work_start == pc.t
             IN  /\ state' = WorkUpdate(pc.read, work_start)
                 /\ opened' = work_start
          /\ probed' = FALSE
          /\ Return(TRUE)
          /\ UNCHANGED <<reply, panicked, closed, committed>>

work(msg, t, ok) ==
    /\ ~panicked
    /\ UNCHANGED cvars
    /\ \/ Enter("work", msg, t)
       \/ /\ Awaiting("work", msg, "send")
          /\ LET work_start == pc.t
             IN  IF ok THEN Delivered(StartedReply(work_start))
                       ELSE reply' = NoReply /\ Return(FALSE)
          /\ UNCHANGED <<state, panicked, opened, closed, committed, probed>>
       \/ /\ Awaiting("work", msg, "update")
          /\ LET work_start == pc.t
             IN  /\ state' = WorkUpdate(pc.read, work_start)
                 /\ opened' = work_start
          /\ probed' = FALSE
          /\ Return(TRUE)
          /\ UNCHANGED <<reply, panicked, closed, committed>>

rest(msg, t, ok) ==
    /\ ~panicked
    /\ UNCHANGED cvars
    /\ \/ Enter("rest", msg, t)
       \/ /\ Awaiting("rest", msg, "send")
          /\ LET cur_time == pc.t
                 new_cur_hours == RestNewCurHours(pc.read, cur_time)
             IN  IF ok
                 THEN Delivered(DoneReply("Work done. Done ", new_cur_hours,
                                          pc.read.target_hours, <<WorkText, StatusText>>))
                 ELSE reply' = NoReply /\ Return(FALSE)
          /\ UNCHANGED <<state, panicked, opened, closed, committed, probed>>
       \/ /\ Awaiting("rest", msg, "update")
          /\ LET cur_time == pc.t
                 new_cur_hours == RestNewCurHours(pc.read, cur_time)
             IN  state' = Rest(pc.read.target_hours, new_cur_hours)
          /\ Return(TRUE)
          /\ closed' = TRUE
          /\ committed' = committed + (pc.t - opened)
          /\ UNCHANGED <<reply, panicked, opened, probed>>

work_status(msg, t, ok) ==
    /\ ~panicked
    /\ UNCHANGED cvars
    /\ \/ Enter("work_status", msg, t)
       \/ /\ Awaiting("work_status", msg, "send")
          /\ LET cur_time == pc.t
                 new_cur_hours == StatusNewCurHours(pc.read, cur_time)
             IN  reply' = IF ok
                          THEN DoneReply("Done ", new_cur_hours, pc.read.target_hours, <<>>)
                          ELSE NoReply
          /\ state' = IF ok THEN WorkStatusUpdate(state, pc.t) ELSE state
          /\ Return(ok)
          /\ probed' = (probed \/ ok)
          /\ UNCHANGED <<panicked, opened, closed, committed>>

rest_status(msg, ok) ==
    /\ ~panicked
    /\ UNCHANGED cvars
    /\ \/ Enter("rest_status", msg, NoReading)
       \/ /\ Awaiting("rest_status", msg, "send")
          /\ reply' = IF ok
                      THEN DoneReply("Done ", pc.read.cur_hours, pc.read.target_hours, <<>>)
                      ELSE NoReply
          /\ Return(ok)
          /\ UNCHANGED <<state, panicked, opened, closed, committed, probed>>

invalid_state(msg, ok) ==
    /\ ~panicked
    /\ UNCHANGED cvars
    /\ \/ Enter("invalid_state", msg, NoReading)
       \/ /\ Awaiting("invalid_state", msg, "send")
          /\ reply' = IF ok THEN InvalidReply ELSE NoReply
          /\ Return(ok)
          /\ UNCHANGED <<state, panicked, opened, closed, committed, probed>>

receive_target_hours(msg, ok) ==
    /\ ~panicked
    /\ UNCHANGED cvars
    /\ LET parsed == IF msg.hasText THEN ParseI64(msg.text) ELSE ParseErr
       IN  \/ Enter("receive_target_hours", msg, NoReading)
           \/ /\ Awaiting("receive_target_hours", msg, "send")
              /\ IF ~parsed.ok
                 THEN /\ reply' = IF ok THEN RepromptReply ELSE NoReply
                      /\ Return(ok)
                 ELSE IF ok THEN Delivered(SetupDoneReply)
                            ELSE reply' = NoReply /\ Return(FALSE)
              /\ UNCHANGED <<state, panicked, opened, closed, committed, probed>>
           \/ /\ Awaiting("receive_target_hours", msg, "update")
              /\ LET target_hours == TimeDeltaHours(parsed)
                 IN  IF target_hours.panic
                     THEN panicked' = TRUE /\ UNCHANGED state
                     ELSE /\ state' = Rest(target_hours.value, 0)
                          /\ UNCHANGED panicked
              /\ Return(TRUE)
              /\ UNCHANGED <<reply, opened, closed, committed, probed>>

(* ------------------------------ the clock ------------------------------ *)
\* time passes: the clock shows a later value of R
Tick(R) ==
    \E t \in R :
        /\ t > now
        /\ now' = t
        /\ UNCHANGED <<setbacks, svars>>

\* the wall clock is adjusted to an earlier value of R
SetBack(R) ==
    \E t \in R :
        /\ t < now
        /\ now' = t
        /\ setbacks' = setbacks + 1
        /\ UNCHANGED svars

\* the message of a step: one of M arrives when no endpoint is in flight; an
\* endpoint in flight goes on with the message it was entered with
Inbound(M) == IF pc = Idle THEN M ELSE {pc.msg}
\* the outcome of send_message, where an endpoint awaits it
Outcomes == IF pc.step = "send" THEN BOOLEAN ELSE {TRUE}

\* one step of an endpoint, its message drawn from M; Utc::now returns `now`
Step(M) ==
    \/ \E msg \in Inbound(M), ok \in Outcomes : help(msg, ok)
    \/ \E msg \in Inbound(M), ok \in Outcomes : work(msg, now, ok)
    \/ \E msg \in Inbound(M), ok \in Outcomes : rest(msg, now, ok)
    \/ \E msg \in Inbound(M), ok \in Outcomes : work_status(msg, now, ok)
    \/ \E msg \in Inbound(M), ok \in Outcomes : rest_status(msg, ok)
    \/ \E msg \in Inbound(M), ok \in Outcomes : invalid_state(msg, ok)
    \/ \E msg \in Inbound(M), ok \in Outcomes : receive_target_hours(msg, ok)

\* the program and its clock, the messages drawn from M, the readings from R
Run(M, R) ==
    \/ Step(M)
    \/ Tick(R)
    \/ SetBack(R)

\* the part of Run that is explored: a behaviour is followed up to its
\* MaxSetbacks-th set-back of the clock
Explored(M, R) ==
    \/ Step(M)
    \/ Tick(R)
    \/ SetBack(R) /\ setbacks' <= MaxSetbacks

\* time accounting: the commands and a target, over the whole clock
Next == Run(TimingMessages, ClockReadings)
Spec == Init /\ [][Explored(TimingMessages, ClockReadings)]_vars

\* the dialogue: every message, while the clock moves within a second
NextDialogue == Run(Messages, DialogueClock)
SpecDialogue == Init /\ [][Explored(Messages, DialogueClock)]_vars

(* ============================== properties ============================== *)
\* the step at which an endpoint returns: `last'` is the event handled,
\* `state` the State the endpoint was given
Handled == pc # Idle /\ pc' = Idle
InSession(st) == st.tag \in {"Rest", "Work"}
\* whole seconds named by three format arguments hh, mm, ss starting at a[i]
ArgSecs(a, i) == a[i] * 3600 + a[i + 1] * 60 + a[i + 2]
TwoHours == 2 * 3600 * SubsecRes
Text010101 == <<"0", "1", ":", "0", "1", ":", "0", "1">>
Text020000 == <<"0", "2", ":", "0", "0", ":", "0", "0">>

\* C1: a delivered Rest in Working{target, acc, started_at}, reading the clock
\* at now, stores Resting{target, acc + (now - started_at)} (no started_at),
\* and its "Work done. Done .. of .." message shows the whole seconds of that
\* new accumulated value and of the target.
C1_RestCommitsElapsed ==
    [][(Handled /\ last'.handler = "rest" /\ last'.ok) =>
          /\ state.tag = "Work"
          /\ state' = [tag |-> "Rest", target_hours |-> state.target_hours,
                       cur_hours |-> state.cur_hours + (lastRead' - state.work_start)]
          /\ reply'.kind = "done"
          /\ reply'.text = "Work done. Done "
          /\ ArgSecs(reply'.args, 1) = num_seconds(state'.cur_hours)
          /\ ArgSecs(reply'.args, 4) = num_seconds(state'.target_hours)
          /\ reply'.done = HmsText(SubSeq(reply'.args, 1, 3))
          /\ reply'.of = HmsText(SubSeq(reply'.args, 4, 6))]_vars

\* Work at T0 with accumulated 0 and target 2h, Rest at T0 + 3661 s:
\* "Work done. Done 01:01:01 of 02:00:00"
C1_Witness ==
    /\ last.handler = "rest" /\ last.ok
    /\ state = [tag |-> "Rest", target_hours |-> TwoHours, cur_hours |-> 3661 * SubsecRes]
    /\ closed
    /\ reply.text = "Work done. Done "
    /\ reply.done = Text010101
    /\ reply.of = Text020000

\* C2: in Resting and in Working the stored accumulated value is the sum, over
\* the completed work intervals, of (reading of the Rest that closed it -
\* reading of the Work that opened it); Status calls in between add nothing.
C2_AccumulatedIsSumOfIntervals ==
    InSession(state) => state.cur_hours = committed

\* two intervals committed, a Status answered during the second one
C2_Witness ==
    /\ last.handler = "rest" /\ last.ok
    /\ state.tag = "Rest"
    /\ closed
    /\ probed
    /\ state.cur_hours = 2 * 3661 * SubsecRes + 1

\* C3: in Resting and Working, every event other than a delivered Rest in
\* Working leaves the session in Resting/Working with accumulated as it was.
C3_OnlyRestChangesAccumulated ==
    [][(/\ InSession(state)
        /\ ~(Handled /\ last'.handler = "rest" /\ last'.ok /\ state.tag = "Work")) =>
          (InSession(state') /\ state'.cur_hours = state.cur_hours)]_vars

\* /reset answered in Working with a non-zero accumulated value still stored
C3_Witness ==
    /\ last.handler = "invalid_state" /\ last.ok
    /\ last.msg = TextMsg(ResetText)
    /\ state.tag = "Work"
    /\ state.cur_hours = 3661 * SubsecRes
    /\ closed

\* C4: as long as every clock reading was at least the reading before it,
\* no event lowers accumulated.
C4_AccumulatedMonotone ==
    [][(mono' /\ InSession(state) /\ InSession(state')) =>
          state'.cur_hours >= state.cur_hours]_vars

\* a second interval committed under a non-decreasing clock
C4_Witness ==
    /\ mono
    /\ last.handler = "rest" /\ last.ok
    /\ closed
    /\ opened = 3661 * SubsecRes
    /\ state.tag = "Rest"
    /\ state.cur_hours = 3661 * SubsecRes + 1

\* C5: Status, in Resting and in Working, delivered or not, leaves the whole
\* stored State unchanged.
C5_StatusReadOnly ==
    [][(Handled /\ last'.handler \in {"work_status", "rest_status"}) => state' = state]_vars

\* a Status in Working whose projection differs from the stored value
C5_Witness ==
    /\ last.handler = "work_status" /\ last.ok
    /\ state.tag = "Work"
    /\ reply.kind = "done"
    /\ ArgSecs(reply.args, 1) = 3661
    /\ state.cur_hours = 0

\* C6: a delivered Status in Working{target, acc, started_at} at reading t
\* shows the seconds of acc + (t - started_at) against target; that is the
\* value Rest would commit at t; and of two consecutive Status calls the
\* second, read no earlier, shows no less.
C6_StatusProjection ==
    [][(Handled /\ last'.handler = "work_status" /\ last'.ok) =>
          /\ reply'.kind = "done"
          /\ reply'.text = "Done "
          /\ ArgSecs(reply'.args, 1) =
                 num_seconds(state.cur_hours + (lastRead' - state.work_start))
          /\ ArgSecs(reply'.args, 4) = num_seconds(state.target_hours)
          /\ ArgSecs(reply'.args, 1) = num_seconds(RestNewCurHours(state, lastRead'))
          /\ (last.handler = "work_status" /\ last.ok /\ lastRead' >= lastRead) =>
                 ArgSecs(reply'.args, 1) >= ArgSecs(reply.args, 1)]_vars

\* Status in the second interval: 3661 s stored, 3661 s more elapsed
C6_Witness ==
    /\ last.handler = "work_status" /\ last.ok
    /\ state.tag = "Work"
    /\ state.cur_hours = 3661 * SubsecRes
    /\ closed
    /\ ArgSecs(reply.args, 1) = 2 * 3661
    /\ reply.of = Text020000

\* C7: a delivered Work in Resting{target, acc}, reading the clock at now,
\* stores Working{target, acc, started_at = now}, and the "Started work at"
\* message carries that same reading.
C7_WorkStartsInterval ==
    [][(Handled /\ last'.handler = "work" /\ last'.ok) =>
          /\ state.tag = "Rest"
          /\ state' = [tag |-> "Work", target_hours |-> state.target_hours,
                       cur_hours |-> state.cur_hours, work_start |-> lastRead']
          /\ reply'.kind = "started"
          /\ reply'.text = "Started work at "
          /\ reply'.at = state'.work_start]_vars

\* a second Work, accumulated 3661 s carried into Working
C7_Witness ==
    /\ last.handler = "work" /\ last.ok
    /\ state = [tag |-> "Work", target_hours |-> TwoHours,
                cur_hours |-> 3661 * SubsecRes, work_start |-> 3661 * SubsecRes + 1]
    /\ reply.kind = "started"
    /\ reply.at = 3661 * SubsecRes + 1

(* ----------------- properties of the dialogue (SpecDialogue) ------------- *)
\* the text parses as an i64
IsInteger(msg) == msg.hasText /\ ParseI64(msg.text).ok
\* ... and the i64 is >= 0
IsNonNegInteger(msg) ==
    IsInteger(msg) /\ (~ParseI64(msg.text).neg \/ ParseI64(msg.text).mag = <<"0">>)

\* C8: every text that parses as an integer N >= 0, handled (and answered) in
\* AwaitingTarget, is answered "Setup done." and leaves the session in
\* Resting with target = N hours and accumulated = 0.
C8_EveryNonNegativeTargetAccepted ==
    (/\ pc = Idle
     /\ last.handler = "receive_target_hours" /\ last.ok /\ IsNonNegInteger(last.msg)) =>
        /\ reply = SetupDoneReply
        /\ state.tag = "Rest"
        /\ state.cur_hours = 0
        /\ state.target_hours = DigitsToNat(ParseI64(last.msg.text).mag) * 3600 * SubsecRes

\* C9: a message handled (and answered) in AwaitingTarget whose text is not an
\* integer, a slash-command or a message without text included, goes to
\* receive_target_hours, leaves the state AwaitingTarget and is answered
\* "Send correct hours count.".
C9_NonIntegerReprompted ==
    [][(Handled /\ state.tag = "ReceiveTargetHours" /\ last'.ok /\ ~IsInteger(last'.msg)) =>
          /\ last'.handler = "receive_target_hours"
          /\ state' = state
          /\ reply' = RepromptReply]_vars

\* /help sent while the target is awaited
C9_Witness ==
    /\ last.handler = "receive_target_hours" /\ last.ok
    /\ last.msg = TextMsg(HelpText)
    /\ state = ReceiveTargetHours
    /\ reply = RepromptReply

\* the transitions of the routing table
ValidCommand(tag, cmd) ==
    \/ tag = "Start" /\ cmd = "Help"
    \/ tag = "Rest" /\ cmd \in {"Work", "Status"}
    \/ tag = "Work" /\ cmd \in {"Rest", "Status"}
InvalidCommandFor(st, msg) ==
    ParseCommand(msg) # NoCommand /\ ~ValidCommand(st.tag, ParseCommand(msg))

\* C10 as stated: in every state, a command not valid for the state, once
\* answered, leaves the state unchanged and the answer is "Unable to handle
\* the message. Type /help to see the usage.".
C10_InvalidCommandUnable ==
    [][(Handled /\ InvalidCommandFor(state, last'.msg) /\ last'.ok) =>
          (state' = state /\ reply' = InvalidReply)]_vars

\* C10 amended: a command not valid for the state leaves the state unchanged;
\* in Start, Resting and Working the answer is "Unable to handle the message.
\* Type /help to see the usage.", in AwaitingTarget it is the reprompt
\* "Send correct hours count.".
C10_InvalidCommandRejected ==
    [][(Handled /\ InvalidCommandFor(state, last'.msg) /\ last'.ok) =>
          /\ state' = state
          /\ reply' = IF state.tag = "ReceiveTargetHours" THEN RepromptReply
                      ELSE InvalidReply]_vars

\* /rest sent while Resting
C10_Witness ==
    /\ last.handler = "invalid_state" /\ last.ok
    /\ last.msg = TextMsg(RestText)
    /\ state.tag = "Rest"
    /\ reply = InvalidReply

(* --------------------- the formatting specification --------------------- *)
\* whole seconds of the durations that get formatted
FormatSecs ==
    (0..11) \cup {59, 60, 61, 599, 600, 3599, 3600, 3661, 35999, 36000, 86399, 86400,
                  90000, 359999, 360000}
FormatDurations == {s * SubsecRes + f : s \in FormatSecs, f \in ClockSubs}
\* targets, in hours, as receive_target_hours sets them
FormatTargets == {h * SecsPerHour * SubsecRes : h \in {0, 2, 25}}
FormatMessages == {TextMsg(t) : t \in {WorkText, RestText, StatusText}}

\* a session with its target set, after Work at reading 0 and Rest at reading
\* d; the clock shows d
InitFormat ==
    \E target \in FormatTargets, d \in FormatDurations :
        /\ state = Rest(target, RestNewCurHours(Work(target, 0, 0), d))
        /\ reply = DoneReply("Work done. Done ", RestNewCurHours(Work(target, 0, 0), d),
                             target, <<WorkText, StatusText>>)
        /\ panicked = FALSE
        /\ last = Event("rest", TextMsg(RestText), TRUE)
        /\ lastRead = d
        /\ mono = TRUE
        /\ opened = 0
        /\ closed = TRUE
        /\ committed = d
        /\ probed = FALSE
        /\ pc = Idle
        /\ now = d
        /\ setbacks = 0

\* the endpoints schema() selects in Rest and Work
StepFormat ==
    \/ \E msg \in Inbound(FormatMessages), ok \in Outcomes : work(msg, now, ok)
    \/ \E msg \in Inbound(FormatMessages), ok \in Outcomes : rest(msg, now, ok)
    \/ \E msg \in Inbound(FormatMessages), ok \in Outcomes : work_status(msg, now, ok)
    \/ \E msg \in Inbound(FormatMessages), ok \in Outcomes : rest_status(msg, ok)
    \/ \E msg \in Inbound(FormatMessages), ok \in Outcomes : invalid_state(msg, ok)

\* the session goes on while the clock moves: to the next sub-second
\* reading, or back to the first second
NextFormat ==
    \/ StepFormat
    \/ Tick(DialogueClock)
    \/ SetBack(DialogueClock)

\* the part of NextFormat that is explored
ExploredFormat ==
    \/ StepFormat
    \/ Tick(DialogueClock)
    \/ SetBack(DialogueClock) /\ setbacks' <= MaxSetbacks

SpecFormat == InitFormat /\ [][ExploredFormat]_vars

\* a field of hh:mm:ss as the claim reads it: two digits at least
RECURSIVE Decimal(_)
Decimal(n) ==
    IF n < 10 THEN <<DigitChars[n + 1]>> ELSE Decimal(n \div 10) \o <<DigitChars[(n % 10) + 1]>>
Field(n) == IF n < 10 THEN <<"0">> \o Decimal(n) ELSE Decimal(n)
Rendered(s) ==
    Field(s \div 3600) \o <<":">> \o Field((s \div 60) % 60) \o <<":">> \o Field(s % 60)
\* the reading of the endpoint that sent the last "done" reply: its own while
\* its update is still to come, else the last returned endpoint's
ShownReading == IF pc.step = "update" THEN pc.t ELSE lastRead
\* the accumulated value a "done" reply was given: the stored one, or, while
\* the State is Working, the stored one plus the time since work_start
ShownDuration ==
    IF state.tag = "Work" THEN state.cur_hours + (ShownReading - state.work_start)
    ELSE state.cur_hours

\* C15: each of the three status messages shows a duration of s >= 0 whole
\* seconds, accumulated and target alike, as hh = s / 3600 (not wrapped at
\* 24), mm = (s / 60) mod 60, ss = s mod 60, two digits at least each, so that
\* hh * 3600 + mm * 60 + ss = s and 0 <= mm, ss < 60.
C15_Formatting ==
    reply.kind = "done" =>
        LET s == num_seconds(ShownDuration)
            ts == num_seconds(state.target_hours)
        IN  /\ s >= 0 =>
                 /\ SubSeq(reply.args, 1, 3) = <<s \div 3600, (s \div 60) % 60, s % 60>>
                 /\ ArgSecs(reply.args, 1) = s
                 /\ reply.args[2] \in 0..59 /\ reply.args[3] \in 0..59
                 /\ reply.done = Rendered(s)
            /\ ts >= 0 =>
                 /\ SubSeq(reply.args, 4, 6) = <<ts \div 3600, (ts \div 60) % 60, ts % 60>>
                 /\ ArgSecs(reply.args, 4) = ts
                 /\ reply.args[5] \in 0..59 /\ reply.args[6] \in 0..59
                 /\ reply.of = Rendered(ts)

\* 90000 s shown by a Status in Working as 25:00:00, of 02:00:00
C15_Witness ==
    /\ last.handler = "work_status" /\ last.ok
    /\ state.tag = "Work"
    /\ num_seconds(state.cur_hours) = 90000
    /\ reply.kind = "done"
    /\ reply.done = <<"2", "5", ":", "0", "0", ":", "0", "0">>
    /\ reply.of = Text020000

(* ------------------------- further properties -------------------------- *)
\* C11: a delivered /reset, in any state, leaves the session in Start (target
\* and accumulated gone).
C11_ResetReturnsToStart ==
    [][(Handled /\ ParseCommand(last'.msg) = "Reset" /\ last'.ok) => state' = Start]_vars

\* C12: once in Resting/Working, every event keeps the session in
\* Resting/Working with the target it had.
C12_TargetFixed ==
    [][InSession(state) =>
          (InSession(state') /\ state'.target_hours = state.target_hours)]_vars

\* two intervals committed, the target still the 2 h that were set
C12_Witness ==
    /\ state.tag = "Rest"
    /\ closed
    /\ state.cur_hours = 2 * 3661 * SubsecRes
    /\ state.target_hours = TwoHours

\* C14: an event whose message could not be delivered leaves the stored State
\* as it was, and nothing is delivered for it.
C14_FailedSendKeepsState ==
    [][(Handled /\ last'.handler # "none" /\ ~last'.ok) =>
          (state' = state /\ reply' = NoReply)]_vars

\* a Rest whose "Work done" message failed: still Working, nothing committed
C14_Witness ==
    /\ last.handler = "rest" /\ ~last.ok
    /\ state.tag = "Work"
    /\ state.cur_hours = 3661 * SubsecRes
    /\ closed
    /\ lastRead > state.work_start
    /\ reply = NoReply

\* C16: Work delivered in Resting{target, a} carries a into Working, and a
\* Rest delivered right after it at the same clock reading returns the
\* session to Resting{target, a}.
C16_RoundTrip ==
    [][/\ (Handled /\ last'.handler = "work" /\ last'.ok) =>
             (state'.cur_hours = state.cur_hours /\ state'.target_hours = state.target_hours)
       /\ (/\ last.handler = "work" /\ last.ok
           /\ Handled /\ last'.handler = "rest" /\ last'.ok
           /\ lastRead' = lastRead) =>
             state' = [tag |-> "Rest", target_hours |-> state.target_hours,
                       cur_hours |-> state.cur_hours]]_vars

\* Rest, Work, Rest with no time between the last two: 3661 s before and after
C16_Witness ==
    /\ last.handler = "rest" /\ last.ok
    /\ closed
    /\ opened = lastRead
    /\ committed = 3661 * SubsecRes
    /\ state = [tag |-> "Rest", target_hours |-> TwoHours, cur_hours |-> 3661 * SubsecRes]

\* C17: a delivered answer to /help, in every state, is the command list.
C17_HelpAlwaysAnswered ==
    [][(Handled /\ ParseCommand(last'.msg) = "Help" /\ last'.ok) =>
          reply' = DescriptionsReply]_vars

\* C18: the session starts in Start, and the variant changes only by
\* Start -> AwaitingTarget on /help, AwaitingTarget -> Resting on an integer
\* text, Resting -> Working on /work, Working -> Resting on /rest.
C18_DialogueOrder ==
    /\ state.tag = "Start"
    /\ [][state'.tag # state.tag =>
            \/ /\ state.tag = "Start" /\ state'.tag = "ReceiveTargetHours"
               /\ ParseCommand(last'.msg) = "Help"
            \/ /\ state.tag = "ReceiveTargetHours" /\ state'.tag = "Rest"
               /\ IsInteger(last'.msg)
            \/ /\ state.tag = "Rest" /\ state'.tag = "Work"
               /\ ParseCommand(last'.msg) = "Work"
            \/ /\ state.tag = "Work" /\ state'.tag = "Rest"
               /\ ParseCommand(last'.msg) = "Rest"]_vars

\* Working for the second time: the whole cycle has been walked
C18_Witness ==
    /\ state.tag = "Work"
    /\ closed
    /\ last.handler = "work" /\ last.ok

\* the buttons of a reply, as the commands they send
Offered(r) == IF r.kind = "none" THEN {} ELSE {r.keyboard[i] : i \in 1..Len(r.keyboard)}

\* C19: every button of a reply is a command valid in the state the session
\* is then in: "Setup done." and "Work done." come with exactly /work and
\* /status in Resting, "Started work at" with exactly /rest and /status in
\* Working, and an offered command sent next is not answered with the
\* fallback.
C19_KeyboardValid ==
    /\ [](pc = Idle =>
          /\ \A b \in Offered(reply) : ValidCommand(state.tag, ParseCommand(TextMsg(b)))
          /\ (reply.kind = "text" /\ reply.text = "Setup done.") =>
                (state.tag = "Rest" /\ reply.keyboard = <<WorkText, StatusText>>)
          /\ (reply.kind = "done" /\ reply.text = "Work done. Done ") =>
                (state.tag = "Rest" /\ reply.keyboard = <<WorkText, StatusText>>)
          /\ reply.kind = "started" =>
                (state.tag = "Work" /\ reply.keyboard = <<RestText, StatusText>>))
    /\ [][(pc = Idle /\ pc' # Idle /\ pc'.msg.hasText /\ pc'.msg.text \in Offered(reply)) =>
            pc'.handler # "invalid_state"]_vars

\* C20: while every clock reading was at least the one before it, the
\* durations that are formatted, target, accumulated and the projection of a
\* Status in Working, are >= 0.
C20_FormattedNonNegative ==
    (pc = Idle /\ mono /\ reply.kind = "done") =>
        /\ state.target_hours >= 0
        /\ state.cur_hours >= 0
        /\ \A i \in 1..6 : reply.args[i] >= 0

====
